---- MODULE Spec2Model ----
(***************************************************************************)
(* Model of the two financial record extractors:                           *)
(*   scripts/download-real-data.py          (one company list, one file)   *)
(*   scripts/download-comprehensive-data.py (five sector blocks, five      *)
(*                                           files)                        *)
(* The market-data provider (yfinance) is the environment: what it answers *)
(* for each ticker is fixed in the initial state (variable provider) and   *)
(* the scripts run against it one step at a time.                          *)
(***************************************************************************)
EXTENDS Integers, Sequences, FiniteSets, TLC

(***************************************************************************)
(* Bounds of the model.                                                    *)
(***************************************************************************)
\* how many (ticker, name) pairs of every hard-coded mapping the model runs
MaxTickers == 2
\* number of period columns of the long provider table (more than a window)
LongCols == 9

(***************************************************************************)
(* Program constants.                                                      *)
(***************************************************************************)
\* quarterly_income.columns[:8]
WindowReal == 8
\* income.columns[:6]
WindowSector == 6

(***************************************************************************)
(* Values.  A Python value that a table cell, a local variable or a record *)
(* field can hold: None, float NaN, a number (the rational n/d, d > 0, in  *)
(* lowest terms), a non-numeric string, or "an exception was raised while  *)
(* evaluating this".                                                       *)
(***************************************************************************)
None == [t |-> "None", n |-> 0, d |-> 1]
NaN == [t |-> "NaN", n |-> 0, d |-> 1]
Str == [t |-> "str", n |-> 0, d |-> 1]
Raised == [t |-> "raise", n |-> 0, d |-> 1]

Abs(x) == IF x < 0 THEN -x ELSE x

RECURSIVE GCD(_, _)
GCD(a, b) == IF b = 0 THEN a ELSE GCD(b, a % b)

\* the rational n/d in lowest terms with a positive denominator
Num(n, d) ==
    LET g == GCD(Abs(n), Abs(d))
        s == IF d < 0 THEN -1 ELSE 1
    IN  [t |-> "num", n |-> (s * n) \div g, d |-> Abs(d) \div g]

\* a bug of the truth test: "is not None" in place of the truth value
TruthyNotNone(v) == v.t # "None"

\* bool(x): None and 0 are falsy; NaN, non-zero numbers and non-empty strings
\* are truthy
Truthy(v) ==
    CASE v.t = "None" -> FALSE
      [] v.t = "num" -> v.n # 0
      [] OTHER -> TRUE

\* a bug of the presence test: "is not None" in place of pd.notna
NotNaOnlyNone(v) == v.t # "None"

\* pd.notna(x)
NotNa(v) == v.t \notin {"None", "NaN"}

\* a / b for two Python values (only evaluated when both are truthy)
Div(a, b) ==
    CASE a.t = "raise" \/ b.t = "raise" -> Raised
      [] a.t = "str" \/ b.t = "str" -> Raised
      [] a.t = "None" \/ b.t = "None" -> Raised
      [] a.t = "NaN" \/ b.t = "NaN" -> NaN
      [] b.n = 0 -> Raised
      [] OTHER -> Num(a.n * b.d, a.d * b.n)

\* int(x): truncation toward zero; int of a non-numeric string raises
ToInt(v) ==
    CASE v.t = "num" ->
           IF v.n >= 0 THEN Num(v.n \div v.d, 1) ELSE Num(-((-v.n) \div v.d), 1)
      [] OTHER -> Raised

\* float(x)
ToFloat(v) ==
    CASE v.t \in {"num", "NaN"} -> v
      [] OTHER -> Raised

\* int(x) if pd.notna(x) else None
IntOrNone(v) ==
    IF v.t = "raise" THEN Raised
    ELSE IF NotNa(v) THEN ToInt(v) ELSE None

\* float(x) if pd.notna(x) else None
FloatOrNone(v) ==
    IF v.t = "raise" THEN Raised
    ELSE IF NotNa(v) THEN ToFloat(v) ELSE None

\* (num / revenue) if revenue and num else None
Margin(num, revenue) ==
    IF Truthy(revenue) /\ Truthy(num) THEN Div(num, revenue) ELSE None

\* float(num / revenue) if revenue and num else None
FloatMargin(num, revenue) ==
    IF Truthy(revenue) /\ Truthy(num) THEN ToFloat(Div(num, revenue)) ELSE None

(***************************************************************************)
(* Period markers (the column labels of a statement table) and tables.     *)
(***************************************************************************)
\* a pandas Timestamp
TS(y, m) == [kind |-> "ts", year |-> y, month |-> m, day |-> 28]
\* a column label that is not a timestamp (no .year / .month / .strftime)
BadMarker == [kind |-> "bad", year |-> 0, month |-> 0, day |-> 0]

\* what a statement property of yf.Ticker can give: an exception, None, or a
\* DataFrame with period columns, row labels (index) and one cell per
\* (row label, column position)
RaisesTable == [kind |-> "raise", columns |-> <<>>, cells |-> <<>>]
NoneTable == [kind |-> "None", columns |-> <<>>, cells |-> <<>>]
DF(cols, cells) == [kind |-> "df", columns |-> cols, cells |-> cells]

\* df.index
Index(df) == DOMAIN df.cells

\* df.empty: some axis has length 0
Empty(df) == Len(df.columns) = 0 \/ Index(df) = {}

\* df.loc[label, col]: KeyError when col is not a column of df
Loc(df, label, col) ==
    IF \E i \in 1..Len(df.columns) : df.columns[i] = col
    THEN df.cells[label][CHOOSE i \in 1..Len(df.columns) : df.columns[i] = col]
    ELSE Raised

\* income.loc[label, col] if label in income.index else None
Item(df, label, col) ==
    IF label \in Index(df) THEN Loc(df, label, col) ELSE None

\* t.loc[label, col] if t is not None and label in t.index else None
OptItem(df, label, col) ==
    IF df.kind # "None" /\ label \in Index(df) THEN Loc(df, label, col) ELSE None

\* a bug of the quarter arithmetic: four months to a quarter
QuarterLabelByFour(month) == <<"Q1", "Q2", "Q3", "Q4">>[(month - 1) \div 4 + 1]

\* f"Q{(quarter_date.month - 1) // 3 + 1}"
QuarterNames == <<"Q1", "Q2", "Q3", "Q4">>
QuarterLabel(month) == QuarterNames[(month - 1) \div 3 + 1]

\* quarter_date.strftime('%Y-%m-%d'): the three printed components
DateStr(col) == <<col.year, col.month, col.day>>

(***************************************************************************)
(* The hard-coded ticker -> display-name mappings, in dictionary order.    *)
(***************************************************************************)
companies ==
    << <<"AAPL", "Apple Inc">>, <<"MSFT", "Microsoft Corporation">>,
       <<"GOOGL", "Alphabet Inc">>, <<"AMZN", "Amazon.com Inc">>,
       <<"TSLA", "Tesla Inc">>, <<"JPM", "JPMorgan Chase">>,
       <<"JNJ", "Johnson & Johnson">>, <<"V", "Visa Inc">>,
       <<"WMT", "Walmart Inc">>, <<"PG", "Procter & Gamble">> >>

tech_companies ==
    << <<"AAPL", "Apple Inc">>, <<"MSFT", "Microsoft Corporation">>,
       <<"GOOGL", "Alphabet Inc">>, <<"META", "Meta Platforms">>,
       <<"NVDA", "NVIDIA Corporation">>, <<"ORCL", "Oracle Corporation">>,
       <<"ADBE", "Adobe Inc">>, <<"CRM", "Salesforce Inc">>,
       <<"INTC", "Intel Corporation">>, <<"AMD", "Advanced Micro Devices">> >>

healthcare_companies ==
    << <<"JNJ", "Johnson & Johnson">>, <<"UNH", "UnitedHealth Group">>,
       <<"PFE", "Pfizer Inc">>, <<"ABBV", "AbbVie Inc">>,
       <<"TMO", "Thermo Fisher Scientific">>, <<"ABT", "Abbott Laboratories">>,
       <<"MRK", "Merck & Co">>, <<"LLY", "Eli Lilly">> >>

financial_companies ==
    << <<"JPM", "JPMorgan Chase">>, <<"BAC", "Bank of America">>,
       <<"WFC", "Wells Fargo">>, <<"GS", "Goldman Sachs">>,
       <<"MS", "Morgan Stanley">>, <<"C", "Citigroup">>,
       <<"BLK", "BlackRock">>, <<"AXP", "American Express">> >>

consumer_companies ==
    << <<"AMZN", "Amazon.com Inc">>, <<"WMT", "Walmart Inc">>,
       <<"HD", "Home Depot">>, <<"NKE", "Nike Inc">>,
       <<"MCD", "McDonalds Corporation">>, <<"SBUX", "Starbucks Corporation">>,
       <<"TGT", "Target Corporation">>, <<"COST", "Costco Wholesale">> >>

energy_companies ==
    << <<"XOM", "Exxon Mobil">>, <<"CVX", "Chevron Corporation">>,
       <<"COP", "ConocoPhillips">>, <<"SLB", "Schlumberger">>,
       <<"EOG", "EOG Resources">> >>

\* the blocks a script runs, in program order; "sp500" is the single block of
\* download-real-data.py
Blocks(s) ==
    IF s = "real" THEN <<"sp500">>
    ELSE <<"tech", "healthcare", "financial", "consumer", "energy">>

AllBlocks == {"sp500", "tech", "healthcare", "financial", "consumer", "energy"}

FullMapping(b) ==
    CASE b = "sp500" -> companies
      [] b = "tech" -> tech_companies
      [] b = "healthcare" -> healthcare_companies
      [] b = "financial" -> financial_companies
      [] b = "consumer" -> consumer_companies
      [] b = "energy" -> energy_companies

Min(a, b) == IF a < b THEN a ELSE b

\* the mapping a block iterates over: the first MaxTickers pairs of the
\* hard-coded one
Mapping(b) == SubSeq(FullMapping(b), 1, Min(MaxTickers, Len(FullMapping(b))))

\* the blocks that read the balance sheet and the cash-flow statement
ReadsAll(b) == b \in {"sp500", "tech"}

\* columns[:8] / columns[:6]
Window(b) == IF b = "sp500" THEN WindowReal ELSE WindowSector

(***************************************************************************)
(* One period of one ticker: the record the loop body builds.              *)
(***************************************************************************)
\* a bug of the EBITDA step: the explicit row is ignored
EbitdaIgnoresRow(inc, operating_income, col) ==
    IF operating_income # None THEN operating_income ELSE None

\* ebitda: the explicit row when the table has one, else operating income
\* when that is not None, else None
Ebitda(inc, operating_income, col) ==
    IF "EBITDA" \in Index(inc) THEN Loc(inc, "EBITDA", col)
    ELSE IF operating_income # None THEN operating_income
    ELSE None

\* download-real-data.py, the body of the per-period try
RealRow(ticker, name, inc, bal, cf, col) ==
    LET revenue == Item(inc, "Total Revenue", col)
        gross_profit == Item(inc, "Gross Profit", col)
        operating_income == Item(inc, "Operating Income", col)
        net_income == Item(inc, "Net Income", col)
        ebitda == Ebitda(inc, operating_income, col)
        total_assets == OptItem(bal, "Total Assets", col)
        total_debt == OptItem(bal, "Total Debt", col)
        operating_cashflow == OptItem(cf, "Operating Cash Flow", col)
        free_cashflow == OptItem(cf, "Free Cash Flow", col)
        gross_margin == Margin(gross_profit, revenue)
        operating_margin == Margin(operating_income, revenue)
        net_margin == Margin(net_income, revenue)
    IN  [Company |-> name,
         Ticker |-> ticker,
         Quarter |-> QuarterLabel(col.month),
         Year |-> col.year,
         Date |-> DateStr(col),
         Revenue |-> IntOrNone(revenue),
         Gross_Profit |-> IntOrNone(gross_profit),
         EBITDA |-> IntOrNone(ebitda),
         Operating_Income |-> IntOrNone(operating_income),
         Net_Income |-> IntOrNone(net_income),
         Total_Assets |-> IntOrNone(total_assets),
         Total_Debt |-> IntOrNone(total_debt),
         Operating_Cashflow |-> IntOrNone(operating_cashflow),
         Free_Cashflow |-> IntOrNone(free_cashflow),
         Gross_Margin |-> FloatOrNone(gross_margin),
         Operating_Margin |-> FloatOrNone(operating_margin),
         Net_Margin |-> FloatOrNone(net_margin)]

\* download-comprehensive-data.py, technology block
TechRow(ticker, name, inc, col) ==
    LET revenue == Item(inc, "Total Revenue", col)
        gross_profit == Item(inc, "Gross Profit", col)
        operating_income == Item(inc, "Operating Income", col)
        net_income == Item(inc, "Net Income", col)
        rd_expense == Item(inc, "Research And Development", col)
    IN  [Company |-> name,
         Ticker |-> ticker,
         Quarter |-> QuarterLabel(col.month),
         Year |-> col.year,
         Date |-> DateStr(col),
         Revenue |-> IntOrNone(revenue),
         Gross_Profit |-> IntOrNone(gross_profit),
         Operating_Income |-> IntOrNone(operating_income),
         Net_Income |-> IntOrNone(net_income),
         RD_Expense |-> IntOrNone(rd_expense),
         Gross_Margin |-> FloatMargin(gross_profit, revenue),
         Operating_Margin |-> FloatMargin(operating_income, revenue),
         Net_Margin |-> FloatMargin(net_income, revenue),
         RD_Intensity |-> FloatMargin(rd_expense, revenue)]

\* download-comprehensive-data.py, healthcare block
HealthcareRow(ticker, name, inc, col) ==
    LET revenue == Item(inc, "Total Revenue", col)
        gross_profit == Item(inc, "Gross Profit", col)
        net_income == Item(inc, "Net Income", col)
        rd_expense == Item(inc, "Research And Development", col)
    IN  [Company |-> name,
         Ticker |-> ticker,
         Quarter |-> QuarterLabel(col.month),
         Year |-> col.year,
         Date |-> DateStr(col),
         Revenue |-> IntOrNone(revenue),
         Gross_Profit |-> IntOrNone(gross_profit),
         Net_Income |-> IntOrNone(net_income),
         RD_Expense |-> IntOrNone(rd_expense),
         Gross_Margin |-> FloatMargin(gross_profit, revenue),
         Net_Margin |-> FloatMargin(net_income, revenue)]

\* download-comprehensive-data.py, financial block
FinancialRow(ticker, name, inc, col) ==
    LET revenue == Item(inc, "Total Revenue", col)
        net_income == Item(inc, "Net Income", col)
        operating_income == Item(inc, "Operating Income", col)
    IN  [Company |-> name,
         Ticker |-> ticker,
         Quarter |-> QuarterLabel(col.month),
         Year |-> col.year,
         Date |-> DateStr(col),
         Revenue |-> IntOrNone(revenue),
         Operating_Income |-> IntOrNone(operating_income),
         Net_Income |-> IntOrNone(net_income),
         Operating_Margin |-> FloatMargin(operating_income, revenue),
         Net_Margin |-> FloatMargin(net_income, revenue)]

\* download-comprehensive-data.py, consumer / retail block
ConsumerRow(ticker, name, inc, col) ==
    LET revenue == Item(inc, "Total Revenue", col)
        gross_profit == Item(inc, "Gross Profit", col)
        operating_income == Item(inc, "Operating Income", col)
        net_income == Item(inc, "Net Income", col)
    IN  [Company |-> name,
         Ticker |-> ticker,
         Quarter |-> QuarterLabel(col.month),
         Year |-> col.year,
         Date |-> DateStr(col),
         Revenue |-> IntOrNone(revenue),
         Gross_Profit |-> IntOrNone(gross_profit),
         Operating_Income |-> IntOrNone(operating_income),
         Net_Income |-> IntOrNone(net_income),
         Gross_Margin |-> FloatMargin(gross_profit, revenue),
         Operating_Margin |-> FloatMargin(operating_income, revenue),
         Net_Margin |-> FloatMargin(net_income, revenue)]

\* download-comprehensive-data.py, energy block
EnergyRow(ticker, name, inc, col) ==
    LET revenue == Item(inc, "Total Revenue", col)
        gross_profit == Item(inc, "Gross Profit", col)
        net_income == Item(inc, "Net Income", col)
    IN  [Company |-> name,
         Ticker |-> ticker,
         Quarter |-> QuarterLabel(col.month),
         Year |-> col.year,
         Date |-> DateStr(col),
         Revenue |-> IntOrNone(revenue),
         Gross_Profit |-> IntOrNone(gross_profit),
         Net_Income |-> IntOrNone(net_income),
         Gross_Margin |-> FloatMargin(gross_profit, revenue),
         Net_Margin |-> FloatMargin(net_income, revenue)]

\* the record the loop body of block b builds for column col
Row(b, ticker, name, inc, bal, cf, col) ==
    CASE b = "sp500" -> RealRow(ticker, name, inc, bal, cf, col)
      [] b = "tech" -> TechRow(ticker, name, inc, col)
      [] b = "healthcare" -> HealthcareRow(ticker, name, inc, col)
      [] b = "financial" -> FinancialRow(ticker, name, inc, col)
      [] b = "consumer" -> ConsumerRow(ticker, name, inc, col)
      [] b = "energy" -> EnergyRow(ticker, name, inc, col)

IdentityFields == {"Company", "Ticker", "Quarter", "Year", "Date"}

\* the loop body raises: the column label has no .year / .month, or some
\* expression of the body raised (KeyError, TypeError, ValueError)
BodyRaises(b, ticker, name, inc, bal, cf, col) ==
    IF col.kind # "ts" THEN TRUE
    ELSE LET row == Row(b, ticker, name, inc, bal, cf, col)
         IN  \E f \in (DOMAIN row) \ IdentityFields : row[f].t = "raise"

(***************************************************************************)
(* pd.DataFrame(rows), df.sort_values([...]) and df.to_csv(path).          *)
(***************************************************************************)
\* the keys of the row dictionaries, in insertion order
FieldOrder(b) ==
    CASE b = "sp500" ->
           <<"Company", "Ticker", "Quarter", "Year", "Date", "Revenue",
             "Gross_Profit", "EBITDA", "Operating_Income", "Net_Income",
             "Total_Assets", "Total_Debt", "Operating_Cashflow",
             "Free_Cashflow", "Gross_Margin", "Operating_Margin", "Net_Margin">>
      [] b = "tech" ->
           <<"Company", "Ticker", "Quarter", "Year", "Date", "Revenue",
             "Gross_Profit", "Operating_Income", "Net_Income", "RD_Expense",
             "Gross_Margin", "Operating_Margin", "Net_Margin", "RD_Intensity">>
      [] b = "healthcare" ->
           <<"Company", "Ticker", "Quarter", "Year", "Date", "Revenue",
             "Gross_Profit", "Net_Income", "RD_Expense", "Gross_Margin",
             "Net_Margin">>
      [] b = "financial" ->
           <<"Company", "Ticker", "Quarter", "Year", "Date", "Revenue",
             "Operating_Income", "Net_Income", "Operating_Margin", "Net_Margin">>
      [] b = "consumer" ->
           <<"Company", "Ticker", "Quarter", "Year", "Date", "Revenue",
             "Gross_Profit", "Operating_Income", "Net_Income", "Gross_Margin",
             "Operating_Margin", "Net_Margin">>
      [] b = "energy" ->
           <<"Company", "Ticker", "Quarter", "Year", "Date", "Revenue",
             "Gross_Profit", "Net_Income", "Gross_Margin", "Net_Margin">>

\* pd.DataFrame(rows).columns: the keys of the rows; no column at all for an
\* empty list
Columns(b, rows) == IF rows = <<>> THEN <<>> ELSE FieldOrder(b)

\* Python's order of the display names (str comparison by code point)
NameOrder ==
    <<"AbbVie Inc", "Abbott Laboratories", "Adobe Inc",
      "Advanced Micro Devices", "Alphabet Inc", "Amazon.com Inc",
      "American Express", "Apple Inc", "Bank of America", "BlackRock",
      "Chevron Corporation", "Citigroup", "ConocoPhillips",
      "Costco Wholesale", "EOG Resources", "Eli Lilly", "Exxon Mobil",
      "Goldman Sachs", "Home Depot", "Intel Corporation", "JPMorgan Chase",
      "Johnson & Johnson", "McDonalds Corporation", "Merck & Co",
      "Meta Platforms", "Microsoft Corporation", "Morgan Stanley",
      "NVIDIA Corporation", "Nike Inc", "Oracle Corporation", "Pfizer Inc",
      "Procter & Gamble", "Salesforce Inc", "Schlumberger",
      "Starbucks Corporation", "Target Corporation", "Tesla Inc",
      "Thermo Fisher Scientific", "UnitedHealth Group", "Visa Inc",
      "Walmart Inc", "Wells Fargo">>

Rank(order, x) == CHOOSE i \in 1..Len(order) : order[i] = x

\* the sort key ['Company', 'Year', 'Quarter'] of a row, as comparable ranks
SortKey(r) == <<Rank(NameOrder, r.Company), r.Year, Rank(QuarterNames, r.Quarter)>>

\* lexicographic k1 <= k2 on the three-part sort keys
KeyLE(k1, k2) ==
    \/ k1[1] < k2[1]
    \/ k1[1] = k2[1] /\ k1[2] < k2[2]
    \/ k1[1] = k2[1] /\ k1[2] = k2[2] /\ k1[3] <= k2[3]

\* a bug of the sort step: the sorted frame is not kept
SortValuesDropped(rows) == rows

\* r placed behind every row of the sorted s whose key is <= r's key
RECURSIVE InsertRow(_, _)
InsertRow(s, r) ==
    IF s = <<>> THEN <<r>>
    ELSE IF KeyLE(SortKey(s[Len(s)]), SortKey(r)) THEN Append(s, r)
    ELSE Append(InsertRow(SubSeq(s, 1, Len(s) - 1), r), s[Len(s)])

\* df.sort_values(['Company', 'Year', 'Quarter']) on a frame that has these
\* columns: the rows in key order, equal keys in their original order
RECURSIVE SortValues(_)
SortValues(rows) ==
    IF rows = <<>> THEN <<>>
    ELSE InsertRow(SortValues(SubSeq(rows, 1, Len(rows) - 1)), rows[Len(rows)])

\* no file written at this path (yet)
NoFile == [written |-> FALSE, header |-> <<>>, rows |-> <<>>]

\* the content df.to_csv(path, index=False) writes: the column names, then
\* one line per row
CsvFile(b, rows) == [written |-> TRUE, header |-> Columns(b, rows), rows |-> rows]

\* the text to_csv writes for a missing value (na_rep = '')
EmptyField == [t |-> "empty", n |-> 0, d |-> 1]

\* the text of one value cell of a line: nothing for None and NaN
CsvCell(v) == IF v.t \in {"None", "NaN"} THEN EmptyField ELSE v

\* the data lines of a file: per row, the text of its value cells
CsvLines(file) ==
    [k \in 1..Len(file.rows) |->
        [f \in (DOMAIN file.rows[k]) \ IdentityFields |-> CsvCell(file.rows[k][f])]]

(***************************************************************************)
(* State.                                                                  *)
(***************************************************************************)
VARIABLES
    script,     \* which script runs: "real" or "comprehensive"
    provider,   \* the environment: ticker -> the three statement tables
    bIdx,       \* position of the running block in Blocks(script)
    tIdx,       \* position of the for-loop over the block's mapping
    income,     \* quarterly_income / income of the current ticker
    balance,    \* quarterly_balance / balance
    cashflow,   \* quarterly_cashflow / cashflow
    cIdx,       \* position of the for-loop over the period columns
    data,       \* all_data / tech_data / healthcare_data / ... per block
    files,      \* the output file of every block
    pc,         \* "ticker", "period", "frame", "summary", "done", "aborted"
    error       \* the exception that ended the script, "none" otherwise

vars == <<script, provider, bIdx, tIdx, income, balance, cashflow, cIdx,
          data, files, pc, error>>

block == Blocks(script)[bIdx]
ticker == Mapping(block)[tIdx][1]
company_name == Mapping(block)[tIdx][2]

\* stock = yf.Ticker(ticker): the answers of the provider for this ticker
stock == provider[ticker]

\* a bug of the window: every period column is walked
WindowColumnsAll(b, df) == df.columns

\* columns[:8] / columns[:6]
WindowColumns(b, df) == SubSeq(df.columns, 1, Min(Len(df.columns), Window(b)))

\* the for-loop over the mapping moves on to the next pair, or ends
NextTicker ==
    /\ tIdx' = tIdx + 1
    /\ pc' = IF tIdx + 1 > Len(Mapping(block)) THEN "frame" ELSE "ticker"

(***************************************************************************)
(* The answers of the provider the model runs the scripts against.         *)
(***************************************************************************)
Resp(inc, bal, cf) == [income |-> inc, balance |-> bal, cashflow |-> cf]

\* a ticker the provider has nothing for
Quiet == Resp(NoneTable, NoneTable, NoneTable)

\* marks, in a row configuration, a row label the table does not have
Absent == [t |-> "absent", n |-> 0, d |-> 1]

IncomeLabels ==
    {"Total Revenue", "Gross Profit", "Operating Income", "Net Income",
     "EBITDA", "Research And Development"}

CellOptions == {Absent, NaN, Str, Num(0, 1), Num(4, 1), Num(-3, 2)}

DefaultCfg == [l \in IncomeLabels |-> Num(4, 1)]

\* the pairs of rows that one record field depends on: revenue and a
\* numerator, the EBITDA row and operating income
LabelPairs ==
    {<<"Total Revenue", l>> : l \in IncomeLabels \ {"Total Revenue"}}
    \cup {<<"EBITDA", "Operating Income">>}

\* row configurations: the two rows of a pair take any option, the others
\* hold 4
PairConfigs ==
    {[l \in IncomeLabels |-> IF l = p[1] THEN o1 ELSE IF l = p[2] THEN o2 ELSE Num(4, 1)] :
        p \in LabelPairs, o1 \in CellOptions, o2 \in CellOptions}

\* the table with the single period column m and the rows of cfg
OneCol(m, cfg) ==
    DF(<<m>>, [l \in {x \in DOMAIN cfg : cfg[x] # Absent} |-> <<cfg[l]>>])

Years == {2023, 2024}
Markers == {TS(y, m) : y \in Years, m \in 1..12} \cup {BadMarker}

\* balance sheets: absent, failing, without rows, without the period, with one
\* or both of the rows, with an empty cell
BalanceTables ==
    {NoneTable, RaisesTable, DF(<<>>, <<>>),
     DF(<<TS(2024, 5)>>, [l \in {"Total Assets", "Total Debt"} |-> <<Num(9, 1)>>]),
     DF(<<TS(2024, 5)>>, [l \in {"Total Assets"} |-> <<NaN>>]),
     DF(<<TS(2024, 5)>>, [l \in {"Total Debt"} |-> <<Num(7, 2)>>]),
     DF(<<TS(2024, 2)>>, [l \in {"Total Assets", "Total Debt"} |-> <<Num(9, 1)>>])}

CashflowTables ==
    {NoneTable, RaisesTable,
     DF(<<TS(2024, 5)>>, [l \in {"Operating Cash Flow", "Free Cash Flow"} |-> <<Num(3, 1)>>]),
     DF(<<TS(2024, 5)>>, [l \in {"Free Cash Flow"} |-> <<Str>>]),
     DF(<<TS(2024, 2)>>, [l \in {"Operating Cash Flow"} |-> <<Num(3, 1)>>])}

\* the i-th most recent quarter end, counting back from November 2024
QuarterEnd(i) ==
    LET k == 4 * 2024 + 3 - (i - 1)
    IN  TS(k \div 4, 3 * (k % 4) + 2)

\* a table with LongCols periods, newest first, a few rows
LongTable ==
    DF([i \in 1..LongCols |-> QuarterEnd(i)],
       [l \in {"Total Revenue", "Net Income"} |-> [i \in 1..LongCols |-> Num(i, 1)]])

\* three periods of 2024, newest first; net income missing for May
ThreeTable ==
    DF(<<TS(2024, 11), TS(2024, 5), TS(2024, 2)>>,
       [l \in {"Total Revenue", "Gross Profit", "Net Income"} |->
          CASE l = "Total Revenue" -> <<Num(8, 1), Num(4, 1), Num(5, 1)>>
            [] l = "Gross Profit" -> <<Num(4, 1), Num(1, 1), Num(2, 1)>>
            [] l = "Net Income" -> <<Num(-1, 1), NaN, Num(3, 2)>>])

\* the same three periods, oldest first; net income missing for November
ThreeTableAsc ==
    DF(<<TS(2024, 2), TS(2024, 5), TS(2024, 11)>>,
       [l \in {"Total Revenue", "Gross Profit", "Net Income", "Operating Income"} |->
          CASE l = "Total Revenue" -> <<Num(7, 2), Num(4, 1), Num(5, 1)>>
            [] l = "Gross Profit" -> <<Num(-4, 1), Num(1, 1), Num(2, 1)>>
            [] l = "Net Income" -> <<Num(1, 1), Num(3, 1), NaN>>
            [] l = "Operating Income" -> <<NaN, Num(0, 1), Num(2, 1)>>])

\* four periods: the second has a malformed marker, the third a string cell
FaultyTable ==
    DF(<<TS(2024, 8), BadMarker, TS(2023, 12), TS(2023, 9)>>,
       [l \in {"Total Revenue", "Operating Income"} |->
          CASE l = "Total Revenue" -> <<Num(6, 1), Num(6, 1), Str, Num(2, 1)>>
            [] l = "Operating Income" -> <<Num(3, 1), Num(3, 1), Num(1, 1), NaN>>])

\* answers for one ticker: one period with varying cells or varying marker,
\* an empty table, three periods oldest first and, for the blocks that read
\* them, varying balance-sheet and cash-flow tables
FieldResponses(b) ==
    {Resp(OneCol(TS(2024, 5), cfg), NoneTable, NoneTable) : cfg \in PairConfigs}
    \cup {Resp(OneCol(m, DefaultCfg), NoneTable, NoneTable) : m \in Markers}
    \cup {Resp(DF(<<>>, <<>>), DF(<<>>, <<>>), DF(<<>>, <<>>)),
          Resp(ThreeTableAsc, NoneTable, NoneTable)}
    \cup (IF ReadsAll(b)
          THEN {Resp(OneCol(TS(2024, 5), DefaultCfg), bal, cf) :
                  bal \in BalanceTables, cf \in CashflowTables}
          ELSE {})

\* answers for whole runs: failing, absent, and three tables
RunResponses ==
    {Resp(RaisesTable, NoneTable, NoneTable),
     Quiet,
     Resp(LongTable, NoneTable, NoneTable),
     Resp(ThreeTable, NoneTable, DF(<<>>, <<>>)),
     Resp(FaultyTable, NoneTable, NoneTable)}

TickersOf(b) == {Mapping(b)[i][1] : i \in 1..Len(Mapping(b))}

ScriptTickers(s) == UNION {TickersOf(Blocks(s)[i]) : i \in 1..Len(Blocks(s))}

\* answers for runs in which several blocks have data
SectorResponses ==
    {Resp(RaisesTable, NoneTable, NoneTable),
     Quiet,
     Resp(ThreeTable, NoneTable, NoneTable)}

\* the first ticker of every block gets any SectorResponses, the others
\* nothing
SectorProviders(s) ==
    {[t \in ScriptTickers(s) |->
        IF \E i \in 1..Len(Blocks(s)) : t = Mapping(Blocks(s)[i])[1][1]
        THEN q[CHOOSE i \in 1..Len(Blocks(s)) : t = Mapping(Blocks(s)[i])[1][1]]
        ELSE Quiet] :
       q \in [1..Len(Blocks(s)) -> SectorResponses]}

\* one block of the script gets any RunResponses, the other blocks nothing
RunProviders(s) ==
    UNION {{[t \in ScriptTickers(s) |-> IF t \in TickersOf(Blocks(s)[i]) THEN q[t] ELSE Quiet] :
              q \in [TickersOf(Blocks(s)[i]) -> RunResponses]} :
           i \in 1..Len(Blocks(s))}

\* the first ticker of one block gets any FieldResponses, the others nothing
FieldProviders(s) ==
    UNION {{[t \in ScriptTickers(s) |-> IF t = Mapping(Blocks(s)[i])[1][1] THEN r ELSE Quiet] :
              r \in FieldResponses(Blocks(s)[i])} :
           i \in 1..Len(Blocks(s))}

Providers(s) == RunProviders(s) \cup FieldProviders(s) \cup SectorProviders(s)

(***************************************************************************)
(* The scripts.                                                            *)
(***************************************************************************)
Init ==
    /\ script \in {"real", "comprehensive"}
    /\ provider \in Providers(script)
    /\ bIdx = 1
    /\ tIdx = 1
    /\ income = NoneTable
    /\ balance = NoneTable
    /\ cashflow = NoneTable
    /\ cIdx = 1
    /\ data = [b \in AllBlocks |-> <<>>]
    /\ files = [b \in AllBlocks |-> NoFile]
    /\ pc = "ticker"
    /\ error = "none"

\* one of the statement properties raises: the ticker is skipped
FetchFails(b, st) ==
    \/ st.income.kind = "raise"
    \/ ReadsAll(b) /\ (st.balance.kind = "raise" \/ st.cashflow.kind = "raise")

\* income is None or income.empty
NoData(df) == df.kind = "None" \/ Empty(df)

\* a bug of the per-ticker try: the exception is not caught
FetchRaisesUncaught ==
    /\ pc = "ticker"
    /\ FetchFails(block, stock)
    /\ pc' = "aborted"
    /\ error' = "Exception"
    /\ UNCHANGED <<script, provider, bIdx, tIdx, income, balance, cashflow,
                   cIdx, data, files>>

\* the per-ticker try: a statement property raises, except Exception, next
FetchRaises ==
    /\ pc = "ticker"
    /\ FetchFails(block, stock)
    /\ income' = IF stock.income.kind = "raise" THEN income ELSE stock.income
    /\ balance' = IF ReadsAll(block) /\ stock.income.kind # "raise"
                     /\ stock.balance.kind # "raise"
                  THEN stock.balance ELSE balance
    /\ NextTicker
    /\ UNCHANGED <<script, provider, bIdx, cashflow, cIdx, data, files, error>>

\* the tables a successful fetch assigns
Fetched ==
    /\ income' = stock.income
    /\ balance' = IF ReadsAll(block) THEN stock.balance ELSE balance
    /\ cashflow' = IF ReadsAll(block) THEN stock.cashflow ELSE cashflow

\* if income is None or income.empty: continue
FetchNoData ==
    /\ pc = "ticker"
    /\ ~FetchFails(block, stock)
    /\ NoData(stock.income)
    /\ Fetched
    /\ NextTicker
    /\ UNCHANGED <<script, provider, bIdx, cIdx, data, files, error>>

\* the statements arrive and the period loop starts
FetchTicker ==
    /\ pc = "ticker"
    /\ ~FetchFails(block, stock)
    /\ ~NoData(stock.income)
    /\ Fetched
    /\ cIdx' = 1
    /\ pc' = "period"
    /\ UNCHANGED <<script, provider, bIdx, tIdx, data, files, error>>

col == WindowColumns(block, income)[cIdx]

\* a bug of a copied block: the record is appended to the list of the first
\* block
ProcessPeriodWrongList ==
    /\ pc = "period"
    /\ cIdx <= Len(WindowColumns(block, income))
    /\ ~BodyRaises(block, ticker, company_name, income, balance, cashflow, col)
    /\ data' = [data EXCEPT ![Blocks(script)[1]] =
                  Append(@, Row(block, ticker, company_name, income, balance, cashflow, col))]
    /\ cIdx' = cIdx + 1
    /\ UNCHANGED <<script, provider, bIdx, tIdx, income, balance, cashflow,
                   files, pc, error>>

\* one pass of the period loop: the record is built and appended
ProcessPeriod ==
    /\ pc = "period"
    /\ cIdx <= Len(WindowColumns(block, income))
    /\ ~BodyRaises(block, ticker, company_name, income, balance, cashflow, col)
    /\ data' = [data EXCEPT ![block] =
                  Append(@, Row(block, ticker, company_name, income, balance, cashflow, col))]
    /\ cIdx' = cIdx + 1
    /\ UNCHANGED <<script, provider, bIdx, tIdx, income, balance, cashflow,
                   files, pc, error>>

\* a bug of the per-period try: break in place of continue
PeriodFailsBreak ==
    /\ pc = "period"
    /\ cIdx <= Len(WindowColumns(block, income))
    /\ BodyRaises(block, ticker, company_name, income, balance, cashflow, col)
    /\ cIdx' = Len(WindowColumns(block, income)) + 1
    /\ UNCHANGED <<script, provider, bIdx, tIdx, income, balance, cashflow,
                   data, files, pc, error>>

\* one pass of the period loop raises: except Exception, continue
PeriodFails ==
    /\ pc = "period"
    /\ cIdx <= Len(WindowColumns(block, income))
    /\ BodyRaises(block, ticker, company_name, income, balance, cashflow, col)
    /\ cIdx' = cIdx + 1
    /\ UNCHANGED <<script, provider, bIdx, tIdx, income, balance, cashflow,
                   data, files, pc, error>>

\* the period loop is over: on to the next pair of the mapping
EndTicker ==
    /\ pc = "period"
    /\ cIdx > Len(WindowColumns(block, income))
    /\ NextTicker
    /\ UNCHANGED <<script, provider, bIdx, income, balance, cashflow, cIdx,
                   data, files, error>>

\* the rows of the frame that is written: sorted in download-real-data.py,
\* as accumulated in every block of download-comprehensive-data.py
FrameRows(b, rows) == IF b = "sp500" THEN SortValues(rows) ELSE rows

\* sort_values on a frame without columns raises KeyError('Company')
SortFails(b, rows) == b = "sp500" /\ rows = <<>>

\* pd.DataFrame(...), sort_values (download-real-data.py only), to_csv
WriteFile ==
    /\ pc = "frame"
    /\ ~SortFails(block, data[block])
    /\ files' = [files EXCEPT ![block] = CsvFile(block, FrameRows(block, data[block]))]
    /\ IF bIdx < Len(Blocks(script))
       THEN bIdx' = bIdx + 1 /\ tIdx' = 1 /\ pc' = "ticker"
       ELSE bIdx' = bIdx /\ tIdx' = tIdx /\ pc' = "summary"
    /\ UNCHANGED <<script, provider, income, balance, cashflow, cIdx, data, error>>

\* df.sort_values raises: nothing catches it, the script ends
SortRaises ==
    /\ pc = "frame"
    /\ SortFails(block, data[block])
    /\ pc' = "aborted"
    /\ error' = "KeyError"
    /\ UNCHANGED <<script, provider, bIdx, tIdx, income, balance, cashflow,
                   cIdx, data, files>>

\* a bug of the write: the exception is swallowed and the script goes on
\* with the next block
WriteFailsContinues ==
    /\ pc = "frame"
    /\ ~SortFails(block, data[block])
    /\ error' = "OSError"
    /\ IF bIdx < Len(Blocks(script))
       THEN bIdx' = bIdx + 1 /\ tIdx' = 1 /\ pc' = "ticker"
       ELSE bIdx' = bIdx /\ tIdx' = tIdx /\ pc' = "summary"
    /\ UNCHANGED <<script, provider, income, balance, cashflow, cIdx, data, files>>

\* to_csv raises (directory missing, disk full): the script ends
WriteFails ==
    /\ pc = "frame"
    /\ ~SortFails(block, data[block])
    /\ pc' = "aborted"
    /\ error' = "OSError"
    /\ UNCHANGED <<script, provider, bIdx, tIdx, income, balance, cashflow,
                   cIdx, data, files>>

\* the closing console summary
Summary ==
    /\ pc = "summary"
    /\ pc' = "done"
    /\ UNCHANGED <<script, provider, bIdx, tIdx, income, balance, cashflow,
                   cIdx, data, files, error>>

Next ==
    \/ FetchRaises
    \/ FetchNoData
    \/ FetchTicker
    \/ ProcessPeriod
    \/ PeriodFails
    \/ EndTicker
    \/ WriteFile
    \/ SortRaises
    \/ WriteFails
    \/ Summary

Spec == Init /\ [][Next]_vars

(***************************************************************************)
(* Vocabulary of the properties.                                           *)
(***************************************************************************)
ScriptBlocks == {Blocks(script)[i] : i \in 1..Len(Blocks(script))}

BlockPos(b) == CHOOSE i \in 1..Len(Blocks(script)) : Blocks(script)[i] = b

Records(b) == {data[b][k] : k \in 1..Len(data[b])}

TickerAt(b, j) == Mapping(b)[j][1]

\* what the provider answers for the j-th pair of block b
Answer(b, j) == provider[TickerAt(b, j)]

\* the period columns block b walks for the j-th pair
Periods(b, j) == WindowColumns(b, Answer(b, j).income)

\* the for-loop of block b is past its j-th pair
TickerPassed(b, j) ==
    \/ BlockPos(b) < bIdx
    \/ BlockPos(b) = bIdx /\ j < tIdx

\* the period loop of the j-th pair of block b is past its i-th column
PeriodPassed(b, j, i) ==
    \/ TickerPassed(b, j)
    \/ BlockPos(b) = bIdx /\ j = tIdx /\ pc = "period" /\ i < cIdx

\* the period loop of the j-th pair of block b has started
TickerEntered(b, j) ==
    \/ TickerPassed(b, j)
    \/ BlockPos(b) = bIdx /\ j = tIdx /\ pc = "period"

\* the fetch of the j-th pair of block b starts a period loop
HasData(b, j) ==
    /\ ~FetchFails(b, Answer(b, j))
    /\ ~NoData(Answer(b, j).income)

\* the body of the period loop raises on the i-th column of the j-th pair
Fails(b, j, i) ==
    BodyRaises(b, TickerAt(b, j), Mapping(b)[j][2], Answer(b, j).income,
               Answer(b, j).balance, Answer(b, j).cashflow, Periods(b, j)[i])

\* the records of block b made from the i-th column of its j-th pair
RecordsOf(b, j, i) ==
    {r \in Records(b) : r.Ticker = TickerAt(b, j)
                        /\ Periods(b, j)[i].kind = "ts"
                        /\ r.Date = <<Periods(b, j)[i].year, Periods(b, j)[i].month,
                                      Periods(b, j)[i].day>>}

\* the cell of a table at a row label and a column position, None when the
\* table has no such row
Cell(df, label, i) == IF label \in DOMAIN df.cells THEN df.cells[label][i] ELSE None

\* the positions of the period columns a record of block b can come from
SourceIdx(b, r) ==
    LET cols == WindowColumns(b, provider[r.Ticker].income)
    IN  {i \in 1..Len(cols) : cols[i].kind = "ts"
                              /\ r.Date = <<cols[i].year, cols[i].month, cols[i].day>>}

(***************************************************************************)
(* C1: a run in which every ticker has an absent or empty income           *)
(* statement produces no record and is not ended by an exception of the    *)
(* extraction, table, sort or summary steps (OSError of the file write     *)
(* apart).                                                                 *)
(***************************************************************************)
AllIncomeMissing == \A t \in ScriptTickers(script) : NoData(provider[t].income)

C1_EmptyRunCompletes ==
    AllIncomeMissing =>
        /\ \A b \in ScriptBlocks : data[b] = <<>>
        /\ pc = "aborted" => error = "OSError"

(***************************************************************************)
(* C2: every ratio field of every record is None, or the quotient of its   *)
(* numerator by a present, non-zero revenue; it is never NaN.              *)
(***************************************************************************)
RatioSource ==
    [Gross_Margin |-> "Gross Profit", Operating_Margin |-> "Operating Income",
     Net_Margin |-> "Net Income", RD_Intensity |-> "Research And Development"]

RatioOK(v, num, rev) ==
    \/ v = None
    \/ /\ rev.t = "num" /\ rev.n # 0
       /\ num.t = "num"
       /\ v.t = "num"
       /\ v.n * num.d * rev.n = num.n * rev.d * v.d

C2_RatioAbsentOrExact ==
    \A b \in ScriptBlocks : \A r \in Records(b) :
        \A f \in (DOMAIN r) \cap (DOMAIN RatioSource) :
            \E i \in SourceIdx(b, r) :
                RatioOK(r[f], Cell(provider[r.Ticker].income, RatioSource[f], i),
                        Cell(provider[r.Ticker].income, "Total Revenue", i))

(***************************************************************************)
(* C3 as stated: the EBITDA field of a record of the single-list extractor *)
(* is the explicit EBITDA value of the period when that value is present,  *)
(* else the operating income of the period when that is present, else      *)
(* None.                                                                   *)
(***************************************************************************)
Present(v) == v.t = "num"

C3_EbitdaByValue ==
    \A r \in Records("sp500") : \E i \in SourceIdx("sp500", r) :
        LET e == Cell(provider[r.Ticker].income, "EBITDA", i)
            oi == Cell(provider[r.Ticker].income, "Operating Income", i)
        IN  r.EBITDA = IF Present(e) THEN e ELSE IF Present(oi) THEN oi ELSE None

(***************************************************************************)
(* C3 amended: the EBITDA field is the explicit EBITDA value of the period *)
(* truncated to an integer whenever the income statement has an EBITDA     *)
(* row (None when that cell is NaN); without such a row it is the          *)
(* operating income truncated to an integer when that is present, else     *)
(* None.                                                                   *)
(***************************************************************************)
\* the integer part of a number, as a value
Trunc(v) ==
    LET k == CHOOSE x \in (-Abs(v.n))..Abs(v.n) :
                 /\ x * v.n >= 0
                 /\ Abs(x) * v.d <= Abs(v.n)
                 /\ Abs(v.n) < (Abs(x) + 1) * v.d
    IN  [t |-> "num", n |-> k, d |-> 1]

TruncOrNone(v) == IF Present(v) THEN Trunc(v) ELSE None

C3_EbitdaByRow ==
    \A r \in Records("sp500") : \E i \in SourceIdx("sp500", r) :
        LET inc == provider[r.Ticker].income
        IN  r.EBITDA = IF "EBITDA" \in DOMAIN inc.cells
                       THEN TruncOrNone(inc.cells["EBITDA"][i])
                       ELSE TruncOrNone(Cell(inc, "Operating Income", i))

\* a record that took the operating income (-3/2, written -1) for want of an
\* EBITDA row, and one whose EBITDA row has an empty cell beside a present
\* operating income
C3_Witness ==
    /\ script = "real"
    /\ \E r \in Records("sp500") : \E i \in SourceIdx("sp500", r) :
          LET inc == provider[r.Ticker].income
          IN  \/ /\ "EBITDA" \notin DOMAIN inc.cells
                 /\ Cell(inc, "Operating Income", i) = Num(-3, 2)
                 /\ r.EBITDA = Num(-1, 1)
              \/ /\ Cell(inc, "EBITDA", i) = NaN
                 /\ Cell(inc, "Operating Income", i) = Num(4, 1)
                 /\ r.EBITDA = None

(***************************************************************************)
(* C4 as stated: in every variant the rows of a written file are in        *)
(* (company name, year, quarter label) order.                              *)
(***************************************************************************)
\* r1 is not behind r2 in the order by company name, then year, then quarter
RowLE(r1, r2) ==
    LET c1 == Rank(NameOrder, r1.Company)
        c2 == Rank(NameOrder, r2.Company)
        q1 == Rank(<<"Q1", "Q2", "Q3", "Q4">>, r1.Quarter)
        q2 == Rank(<<"Q1", "Q2", "Q3", "Q4">>, r2.Quarter)
    IN  IF c1 # c2 THEN c1 < c2
        ELSE IF r1.Year # r2.Year THEN r1.Year < r2.Year
        ELSE q1 <= q2

IsSorted(rows) == \A k \in 1..(Len(rows) - 1) : RowLE(rows[k], rows[k + 1])

Occurrences(rows, r) == Cardinality({k \in 1..Len(rows) : rows[k] = r})

SameRows(a, b) ==
    /\ Len(a) = Len(b)
    /\ \A k \in 1..Len(a) : Occurrences(a, a[k]) = Occurrences(b, a[k])

C4_EveryFileSorted ==
    \A b \in ScriptBlocks : files[b].written => IsSorted(files[b].rows)

(***************************************************************************)
(* C4 amended: the file of the single-list extractor holds the accumulated *)
(* records in (company name, year, quarter label) order; the file of a     *)
(* sector of the multi-sector extractor holds the sector's records in the  *)
(* order they were accumulated, unsorted.                                  *)
(***************************************************************************)
C4_SingleListSorted ==
    \A b \in ScriptBlocks : files[b].written =>
        IF b = "sp500"
        THEN IsSorted(files[b].rows) /\ SameRows(files[b].rows, data[b])
        ELSE files[b].rows = data[b]

\* a written single-list file whose sort moved records
C4_Witness ==
    /\ files["sp500"].written
    /\ Len(data["sp500"]) >= 2
    /\ files["sp500"].rows # data["sp500"]

(***************************************************************************)
(* C5: a period with a well-formed marker and well-typed cells always      *)
(* yields its record, whatever lookups fail (table absent, row label not   *)
(* in the table, period not in the balance-sheet or cash-flow table), and  *)
(* the field of a failed lookup is None.                                   *)
(***************************************************************************)
\* no cell of table df in the column labelled c is a string
WellTyped(df, c) ==
    \A l \in DOMAIN df.cells : \A k \in 1..Len(df.columns) :
        df.columns[k] = c => df.cells[l][k].t # "str"

\* the lookup of a row label for period c in table df fails
LookupFails(df, label, c) ==
    \/ df.kind = "None"
    \/ label \notin DOMAIN df.cells
    \/ \A k \in 1..Len(df.columns) : df.columns[k] # c

C5_LookupFailureKeepsRecord ==
    \A b \in ScriptBlocks : \A j \in 1..Len(Mapping(b)) :
        (TickerEntered(b, j) /\ HasData(b, j)) =>
            \A i \in 1..Len(Periods(b, j)) :
                LET st == Answer(b, j)
                    c == Periods(b, j)[i]
                IN  (/\ PeriodPassed(b, j, i)
                     /\ c.kind = "ts"
                     /\ WellTyped(st.income, c)
                     /\ WellTyped(st.balance, c)
                     /\ WellTyped(st.cashflow, c))
                    => \E r \in RecordsOf(b, j, i) :
                          b = "sp500" =>
                            /\ LookupFails(st.balance, "Total Assets", c)
                                 => r.Total_Assets = None
                            /\ LookupFails(st.balance, "Total Debt", c)
                                 => r.Total_Debt = None
                            /\ LookupFails(st.cashflow, "Operating Cash Flow", c)
                                 => r.Operating_Cashflow = None
                            /\ LookupFails(st.cashflow, "Free Cash Flow", c)
                                 => r.Free_Cashflow = None

(***************************************************************************)
(* C6: a ticker whose provider call raises has no record, and the run goes *)
(* on: when the script is over, every later ticker of the mapping that has *)
(* data has the records of its well-formed periods.                        *)
(***************************************************************************)
\* every period of the j-th pair of block b that does not fail has a record
TickerProcessed(b, j) ==
    HasData(b, j) =>
        \A i \in 1..Len(Periods(b, j)) : ~Fails(b, j, i) => RecordsOf(b, j, i) # {}

C6_FailingTickerSkipped ==
    \A b \in ScriptBlocks : \A j \in 1..Len(Mapping(b)) :
        FetchFails(b, Answer(b, j)) =>
            /\ \A r \in Records(b) : r.Ticker # TickerAt(b, j)
            /\ (pc \in {"done", "aborted"} /\ BlockPos(b) <= bIdx) =>
                  \A j2 \in (j + 1)..Len(Mapping(b)) : TickerProcessed(b, j2)

\* a finished run in which a failing ticker is followed by one with records
C6_Witness ==
    /\ pc = "done"
    /\ \E b \in ScriptBlocks : \E j \in 1..(Len(Mapping(b)) - 1) :
          /\ FetchFails(b, Answer(b, j))
          /\ \E r \in Records(b) : r.Ticker = TickerAt(b, j + 1)

(***************************************************************************)
(* C7: a period whose loop body raises has no record, and every other      *)
(* period of the ticker's window that the loop has passed has its record:  *)
(* the ticker ends with one record per period that does not fail.          *)
(***************************************************************************)
C7_FailingPeriodSkipped ==
    \A b \in ScriptBlocks : \A j \in 1..Len(Mapping(b)) :
        (TickerEntered(b, j) /\ HasData(b, j)) =>
            /\ \A i \in 1..Len(Periods(b, j)) :
                  PeriodPassed(b, j, i) =>
                      IF Fails(b, j, i)
                      THEN RecordsOf(b, j, i) = {}
                      ELSE RecordsOf(b, j, i) # {}
            /\ TickerPassed(b, j) =>
                  Cardinality({k \in 1..Len(data[b]) : data[b][k].Ticker = TickerAt(b, j)})
                      = Cardinality({i \in 1..Len(Periods(b, j)) : ~Fails(b, j, i)})

\* a ticker with a failing period in the middle of its window and a record
\* for a later period
C7_Witness ==
    \E b \in ScriptBlocks : \E j \in 1..Len(Mapping(b)) :
        /\ TickerPassed(b, j)
        /\ HasData(b, j)
        /\ \E i \in 1..Len(Periods(b, j)) : \E i2 \in 1..Len(Periods(b, j)) :
              /\ Fails(b, j, i)
              /\ i < i2
              /\ RecordsOf(b, j, i2) # {}

(***************************************************************************)
(* C8: a block never holds, nor writes, more records than (tickers of its  *)
(* mapping) x (8 in the single-list extractor, 6 in a sector).             *)
(***************************************************************************)
C8_RecordCountBounded ==
    \A b \in ScriptBlocks :
        LET limit == Len(Mapping(b)) * (IF b = "sp500" THEN 8 ELSE 6)
        IN  Len(data[b]) <= limit /\ Len(files[b].rows) <= limit

\* a written file that is full, from tables with more periods than the window
C8_Witness ==
    \E b \in ScriptBlocks :
        /\ files[b].written
        /\ Len(files[b].rows) = Len(Mapping(b)) * (IF b = "sp500" THEN 8 ELSE 6)
        /\ \A j \in 1..Len(Mapping(b)) :
              Len(Answer(b, j).income.columns) > (IF b = "sp500" THEN 8 ELSE 6)

(***************************************************************************)
(* C9: the Quarter of a record is Q1 for the months 1-3 of its period, Q2  *)
(* for 4-6, Q3 for 7-9, Q4 for 10-12, and its Year is the period's year.   *)
(***************************************************************************)
ExpectedQuarter(m) ==
    IF m \in 1..3 THEN "Q1"
    ELSE IF m \in 4..6 THEN "Q2"
    ELSE IF m \in 7..9 THEN "Q3"
    ELSE "Q4"

C9_QuarterFromMonth ==
    \A b \in ScriptBlocks : \A r \in Records(b) :
        \E i \in SourceIdx(b, r) :
            LET c == WindowColumns(b, provider[r.Ticker].income)[i]
            IN  r.Quarter = ExpectedQuarter(c.month) /\ r.Year = c.year

\* records of a December of one year and of an April of another
C9_Witness ==
    \E b \in ScriptBlocks : \E r \in Records(b) : \E i \in SourceIdx(b, r) :
        LET c == WindowColumns(b, provider[r.Ticker].income)[i]
        IN  \/ c.month = 12 /\ c.year = 2023 /\ r.Quarter = "Q4"
            \/ c.month = 4 /\ c.year = 2024 /\ r.Quarter = "Q2"

(***************************************************************************)
(* C10: when one ticker of a block has an income statement of exactly the  *)
(* periods February, May and November 2024, with revenue and gross profit  *)
(* present (non-zero amounts) in all three and net income present          *)
(* (non-zero) in two and missing in the third, no balance-sheet or         *)
(* cash-flow rows, and the other tickers have no data, then the block ends *)
(* with 3 records, quarters Q1, Q2, Q4 for the three periods, a gross      *)
(* margin on all three, a net margin on exactly two, and its file has the  *)
(* header and 3 rows.  (Blocks whose records have a Gross_Margin field.)   *)
(***************************************************************************)
Amount(v) == v.t = "num" /\ v.n # 0

IsScenario(st) ==
    LET inc == st.income
    IN  /\ inc.kind = "df"
        /\ Len(inc.columns) = 3
        /\ {inc.columns[i] : i \in 1..3} = {TS(2024, 2), TS(2024, 5), TS(2024, 11)}
        /\ {"Total Revenue", "Gross Profit", "Net Income"} \subseteq DOMAIN inc.cells
        /\ \A l \in DOMAIN inc.cells : \A i \in 1..3 : inc.cells[l][i].t \in {"num", "NaN"}
        /\ \A i \in 1..3 : Amount(inc.cells["Total Revenue"][i])
        /\ \A i \in 1..3 : Amount(inc.cells["Gross Profit"][i])
        /\ Cardinality({i \in 1..3 : Amount(inc.cells["Net Income"][i])}) = 2
        /\ Cardinality({i \in 1..3 : inc.cells["Net Income"][i] = NaN}) = 1
        /\ st.balance.kind \in {"None", "df"} /\ DOMAIN st.balance.cells = {}
        /\ st.cashflow.kind \in {"None", "df"} /\ DOMAIN st.cashflow.cells = {}

\* block b runs the scenario: one ticker has the table, the others no data
ScenarioBlock(b) ==
    \E j \in 1..Len(Mapping(b)) :
        /\ IsScenario(Answer(b, j))
        /\ \A j2 \in 1..Len(Mapping(b)) : j2 # j =>
              ~FetchFails(b, Answer(b, j2)) /\ NoData(Answer(b, j2).income)

HasValue(v) == v.t = "num"

C10_ThreePeriodScenario ==
    \A b \in ScriptBlocks :
        (/\ ScenarioBlock(b)
         /\ "Gross_Margin" \in {FieldOrder(b)[k] : k \in 1..Len(FieldOrder(b))}
         /\ files[b].written)
        => /\ Len(data[b]) = 3
           /\ \E r \in Records(b) : r.Date[2] = 2 /\ r.Quarter = "Q1" /\ r.Year = 2024
           /\ \E r \in Records(b) : r.Date[2] = 5 /\ r.Quarter = "Q2" /\ r.Year = 2024
           /\ \E r \in Records(b) : r.Date[2] = 11 /\ r.Quarter = "Q4" /\ r.Year = 2024
           /\ \A r \in Records(b) : HasValue(r.Gross_Margin)
           /\ Cardinality({k \in 1..3 : HasValue(data[b][k].Net_Margin)}) = 2
           /\ Len(files[b].rows) = 3
           /\ SameRows(files[b].rows, data[b])
           /\ files[b].header = FieldOrder(b)

\* the scenario ran to its file in the single-list extractor and in a sector
C10_Witness ==
    \E b \in ScriptBlocks :
        /\ ScenarioBlock(b)
        /\ "Gross_Margin" \in {FieldOrder(b)[k] : k \in 1..Len(FieldOrder(b))}
        /\ files[b].written
        /\ Len(files[b].rows) = 3

(***************************************************************************)
(* C11: a written file has the fixed header of the block's record fields   *)
(* and one line per accumulated record, with an empty field for every      *)
(* absent value, whatever the number of records, zero included; a run that *)
(* ends has written the file of every block.                               *)
(***************************************************************************)
C11_HeaderAndOneLinePerRecord ==
    \A b \in ScriptBlocks :
        /\ pc = "done" => files[b].written
        /\ files[b].written =>
              /\ files[b].header = FieldOrder(b)
              /\ Len(CsvLines(files[b])) = Len(data[b])
              /\ SameRows(files[b].rows, data[b])
              /\ \A k \in 1..Len(files[b].rows) :
                    \A f \in (DOMAIN files[b].rows[k]) \ IdentityFields :
                        files[b].rows[k][f] = None
                            => CsvLines(files[b])[k][f] = EmptyField

(***************************************************************************)
(* C13: in both scripts a ratio field of a record is None whenever the     *)
(* numerator of its source period is exactly zero, also when the revenue   *)
(* of the period is a non-zero number; and no ratio field of a record is   *)
(* the number zero.                                                        *)
(***************************************************************************)
Zero == Num(0, 1)

C13_ZeroNumeratorNoRatio ==
    \A b \in ScriptBlocks : \A r \in Records(b) :
        \A f \in (DOMAIN r) \cap (DOMAIN RatioSource) :
            /\ r[f] # Zero
            /\ \E i \in SourceIdx(b, r) :
                  Cell(provider[r.Ticker].income, RatioSource[f], i) = Zero
                      => r[f] = None

C13_Witness ==
    \E b \in ScriptBlocks : \E r \in Records(b) :
        \E f \in (DOMAIN r) \cap (DOMAIN RatioSource) :
            /\ r[f] = None
            /\ \E i \in SourceIdx(b, r) :
                  /\ Cell(provider[r.Ticker].income, RatioSource[f], i) = Zero
                  /\ Amount(Cell(provider[r.Ticker].income, "Total Revenue", i))

(***************************************************************************)
(* C12: in download-comprehensive-data.py the five sectors are extracted   *)
(* independently: every record accumulated for a sector or written to its  *)
(* file has a ticker of that sector's mapping, a step of one sector leaves *)
(* the list and the file of every other sector as they were, and no record *)
(* is in the files of two sectors.                                         *)
(***************************************************************************)
FileRecords(b) == {files[b].rows[k] : k \in 1..Len(files[b].rows)}

OwnTickers ==
    \A b \in ScriptBlocks : \A r \in Records(b) \cup FileRecords(b) :
        r.Ticker \in {FullMapping(b)[j][1] : j \in 1..Len(FullMapping(b))}

FilesDisjoint ==
    \A b \in ScriptBlocks : \A c \in ScriptBlocks \ {b} :
        FileRecords(b) \cap FileRecords(c) = {}

OthersUnchanged ==
    \A c \in ScriptBlocks \ {block} : data'[c] = data[c] /\ files'[c] = files[c]

C12_SectorsIndependent ==
    [][script = "comprehensive" => OthersUnchanged /\ OwnTickers' /\ FilesDisjoint']_vars

C12_Witness ==
    /\ script = "comprehensive"
    /\ files["tech"].written /\ files["tech"].rows # <<>>
    /\ files["healthcare"].written /\ files["healthcare"].rows # <<>>
    /\ files["financial"].written /\ files["financial"].rows = <<>>
    /\ data["consumer"] # <<>>

(***************************************************************************)
(* C14: download-comprehensive-data.py runs its sectors strictly in the    *)
(* order technology, healthcare, financial, consumer, energy: a ticker of  *)
(* a sector is fetched only when the files of all earlier sectors are      *)
(* written and no file of that or a later sector is, files are written in  *)
(* that order and stay written, and when the write of sector k fails the   *)
(* run ends there, with the files of the sectors before k written, no file *)
(* of k or a later sector, and no step after it (so no later fetch).       *)
(***************************************************************************)
SectorOrder == <<"tech", "healthcare", "financial", "consumer", "energy">>

SectorTickers(k) ==
    {FullMapping(SectorOrder[k])[j][1] : j \in 1..Len(FullMapping(SectorOrder[k]))}

\* exactly the files of the sectors before the k-th are written
WrittenBefore(f, k) ==
    \A j \in 1..Len(SectorOrder) : f[SectorOrder[j]].written <=> j < k

C14_SectorsInOrder ==
    [][script = "comprehensive" =>
        /\ pc \notin {"aborted", "done"}
        /\ \A k \in 1..Len(SectorOrder) :
              /\ (pc = "ticker" /\ ticker \in SectorTickers(k))
                    => WrittenBefore(files, k)
              /\ files[SectorOrder[k]].written => files'[SectorOrder[k]].written
              /\ (~files[SectorOrder[k]].written /\ files'[SectorOrder[k]].written)
                    => WrittenBefore(files, k) /\ WrittenBefore(files', k + 1)
              /\ (error' = "OSError" /\ block = SectorOrder[k])
                    => /\ pc' = "aborted"
                       /\ WrittenBefore(files', k)
                       /\ \A j \in (k + 1)..Len(SectorOrder) :
                             data'[SectorOrder[j]] = <<>>]_vars

C14_Witness ==
    /\ script = "comprehensive"
    /\ pc = "aborted" /\ error = "OSError"
    /\ block = "financial"
    /\ files["tech"].written /\ files["tech"].rows # <<>>
    /\ files["healthcare"].written
    /\ ~files["financial"].written /\ data["financial"] # <<>>
    /\ ~files["consumer"].written /\ ~files["energy"].written

====
